---- MODULE Spec2Model ----
(***************************************************************************)
(* Cookidone recipes app: the RecipeList component (two variants) and its  *)
(* pure helpers.                                                           *)
(*   frontend/src/components/RecipeList.jsx  the current component         *)
(*   unnamed/part_000                         the earlier component, with   *)
(*                                            client-side sort and filters  *)
(* Strings are sequences of one-character strings, so that the regular     *)
(* expressions of parseTimeToMinutes are matched character by character.   *)
(* Ratings are counted in tenths (4.5 is 45).                              *)
(***************************************************************************)
EXTENDS Integers, Sequences, FiniteSets, TLC

VARIABLES
    \* a call of a pure helper
    arg,                \* the argument of the pure function under call
    ret,                \* [done |-> FALSE], or [done |-> TRUE, val |-> the value returned]
    \* the React state of RecipeList (useState)
    q,                  \* the search term
    items,              \* the recipes of the last response handled
    page,
    total,
    sort,               \* "" or a sort field
    desc,
    loading,
    selectedRecipe,     \* NoRecipe or the id of the recipe in the modal
    error,              \* null or a message
    ratingRange,        \* <<min, max>>, in tenths
    numRatingsRange,    \* part_000: <<min, max>>
    numRatingsRangeIdx, \* RecipeList.jsx: <<lower slider index, upper slider index>>
    seed,
    includeIngredients,
    excludeIngredients,
    firstLoad,
    categories,
    languageFilter,     \* [ENG |-> BOOLEAN, PL |-> BOOLEAN]
    \* the environment of the component
    mounted,            \* the mount effects have run
    inflight,           \* the requests sent and not yet answered, oldest first
    timer,              \* <<>> or <<the fetchList closure the pending debounce timer calls>>
    \* history
    clicks,             \* user events so far
    answered,           \* <<>> or <<the list request whose response was handled last>>
    hist                \* RecipeList.jsx: the seed drawn at mount, the list requests
                        \* of the walk through the pages under way (see Sent), and
                        \* <<>> or <<the list request sent last>>

pureVars == <<arg, ret>>

stateVars ==
    <<q, items, page, total, sort, desc, loading, selectedRecipe, error, ratingRange,
      numRatingsRange, numRatingsRangeIdx, seed, includeIngredients, excludeIngredients,
      firstLoad, categories, languageFilter>>

envVars == <<mounted, inflight, timer, clicks, answered, hist>>

vars == <<pureVars, stateVars, envVars>>

null == "null"

NoRecipe == 0

NoHist == [mountSeed |-> 0, walk |-> <<>>, last |-> <<>>]

\* the component is not part of a call of a pure helper
NoComponent ==
    /\ q = "" /\ items = <<>> /\ page = 1 /\ total = 0 /\ sort = "" /\ desc = FALSE
    /\ loading = FALSE /\ selectedRecipe = NoRecipe /\ error = null
    /\ ratingRange = <<0, 0>> /\ numRatingsRange = <<0, 0>> /\ numRatingsRangeIdx = <<0, 0>>
    /\ seed = 0 /\ includeIngredients = {} /\ excludeIngredients = {}
    /\ firstLoad = TRUE /\ categories = {} /\ languageFilter = [ENG |-> TRUE, PL |-> TRUE]
    /\ mounted = FALSE /\ inflight = <<>> /\ timer = <<>> /\ clicks = 0
    /\ answered = <<>> /\ hist = NoHist

\* no pure helper is under call in a run of the component
NoCall == arg = <<>> /\ ret = [done |-> FALSE]

(***************************************************************************)
(* Characters and the character classes of JavaScript regular expressions  *)
(***************************************************************************)
DigitChars == <<"0", "1", "2", "3", "4", "5", "6", "7", "8", "9">>

\* \d
IsDigit(c) == c \in {"0", "1", "2", "3", "4", "5", "6", "7", "8", "9"}

DigitVal(c) == (CHOOSE d \in 1..10 : DigitChars[d] = c) - 1

LowerLetters == {"d", "g", "h", "i", "m", "n", "o", "s", "z"}

UpperLetters == {"H", "M"}

\* \w : letters, digits and the underscore
IsWord(c) == IsDigit(c) \/ c \in LowerLetters \/ c \in UpperLetters \/ c = "_"

\* \s
IsSpace(c) == c \in {" ", "\t"}

\* String.prototype.toLowerCase, on the letters of the alphabet used here
toLowerCase(s) ==
    [i \in 1..Len(s) |->
        CASE s[i] = "H" -> "h"
          [] s[i] = "M" -> "m"
          [] OTHER -> s[i]]

\* parseInt(digits, 10) on a run of digits
RECURSIVE parseInt(_)
parseInt(ds) ==
    IF ds = <<>> THEN 0
    ELSE 10 * parseInt(SubSeq(ds, 1, Len(ds) - 1)) + DigitVal(ds[Len(ds)])

\* the literal lit occurs in s at position p
LitAt(s, p, lit) ==
    /\ p >= 1
    /\ p + Len(lit) - 1 <= Len(s)
    /\ \A k \in 1..Len(lit) : s[p + k - 1] = lit[k]

\* \b between s[p] and s[p+1] (the ends of the string count as non-word)
WordBoundary(s, p) ==
    LET before == p >= 1 /\ p <= Len(s) /\ IsWord(s[p])
        after  == p + 1 >= 1 /\ p + 1 <= Len(s) /\ IsWord(s[p + 1])
    IN  before # after

\* the end of the longest run of digits that starts at i (s[i] is a digit)
RunEnd(s, i) ==
    CHOOSE e \in i..Len(s) :
        /\ \A k \in i..e : IsDigit(s[k])
        /\ (e = Len(s) \/ ~IsDigit(s[e + 1]))

\* the first position from j on that holds no blank (Len(s) + 1 when none)
SkipBlanks(s, j) ==
    CHOOSE w \in j..(Len(s) + 1) :
        /\ \A k \in j..(w - 1) : IsSpace(s[k])
        /\ (w = Len(s) + 1 \/ ~IsSpace(s[w]))

\* (\d+)\s*(u1|u2|...)\b matches from position i.  \d+ and \s* are greedy, and
\* giving back a digit or a blank leaves it where the unit must start, so the
\* match, if any, takes the whole run of digits and every blank after it.
UnitMatch(s, i, units) ==
    /\ IsDigit(s[i])
    /\ LET w == SkipBlanks(s, RunEnd(s, i) + 1)
       IN  \E u \in units : LitAt(s, w, u) /\ WordBoundary(s, w + Len(u) - 1)

\* String.prototype.match for (\d+)\s*(units)\b : the captured digits of the
\* leftmost match; <<>> stands for null
MatchUnit(s, units) ==
    LET starts == {i \in 1..Len(s) : UnitMatch(s, i, units)}
    IN  IF starts = {} THEN <<>>
        ELSE LET i == CHOOSE x \in starts : \A y \in starts : x <= y
             IN  SubSeq(s, i, RunEnd(s, i))

\* String.prototype.match for (\d+) : the first maximal run of digits
MatchNumber(s) ==
    LET starts == {i \in 1..Len(s) : IsDigit(s[i])}
    IN  IF starts = {} THEN <<>>
        ELSE LET i == CHOOSE x \in starts : \A y \in starts : x <= y
             IN  SubSeq(s, i, RunEnd(s, i))

\* the alternatives of the hour pattern, (godz|godz\.|h)
HourUnits == {<<"g", "o", "d", "z">>, <<"g", "o", "d", "z", ".">>, <<"h">>}

MinuteUnits == {<<"m", "i", "n">>}

\* a null or undefined duration
NULL == <<"null">>

parseTimeToMinutes(t) ==
    IF t = NULL \/ t = <<>> THEN 0
    ELSE LET lower  == toLowerCase(t)
             hMatch == MatchUnit(lower, HourUnits)
             mMatch == MatchUnit(lower, MinuteUnits)
             num    == MatchNumber(lower)
         IN  IF hMatch = <<>> /\ mMatch = <<>>
             THEN (IF num # <<>> THEN parseInt(num) ELSE 0)
             ELSE (IF hMatch # <<>> THEN parseInt(hMatch) * 60 ELSE 0)
                    + (IF mMatch # <<>> THEN parseInt(mMatch) ELSE 0)

(***************************************************************************)
(* Calls of parseTimeToMinutes on bounded duration strings                 *)
(***************************************************************************)
\* the number of pieces a duration string is assembled from
MaxChunks == 4

Chunks ==
    { <<"1">>, <<"2">>, <<" ">>, <<"h">>, <<"H">>, <<"m", "i", "n">>,
      <<"g", "o", "d", "z">>, <<".">>, <<"s">> }

RECURSIVE StringsOf(_)
StringsOf(n) ==
    IF n = 0 THEN {<<>>}
    ELSE LET shorter == StringsOf(n - 1)
         IN  shorter \cup {s \o c : s \in shorter, c \in Chunks}

Durations == StringsOf(MaxChunks) \cup {NULL}

InitParse ==
    /\ arg \in Durations
    /\ ret = [done |-> FALSE]
    /\ NoComponent

CallParse ==
    /\ ~ret.done
    /\ ret' = [done |-> TRUE, val |-> parseTimeToMinutes(arg)]
    /\ UNCHANGED <<arg, stateVars, envVars>>

NextParse == CallParse

SpecParse == InitParse /\ [][NextParse]_vars

\* C1 as stated: an hour token is a number followed by 'h' or 'godz', a minute
\* token a number followed by 'min' (blanks may separate number and unit)
NumberThenUnit(s, i, e, units) ==
    /\ 1 <= i /\ i <= e /\ e <= Len(s)
    /\ \A k \in i..e : IsDigit(s[k])
    /\ (i = 1 \/ ~IsDigit(s[i - 1]))
    /\ (e = Len(s) \/ ~IsDigit(s[e + 1]))
    /\ \E w \in (e + 1)..(Len(s) + 1) :
          /\ \A k \in (e + 1)..(w - 1) : IsSpace(s[k])
          /\ \E u \in units : LitAt(s, w, u)

HasToken(s, units) ==
    \E i \in 1..Len(s) : \E e \in i..Len(s) : NumberThenUnit(s, i, e, units)

\* the value of the first token with one of units, 0 when there is none
FirstTokenValue(s, units) ==
    IF ~HasToken(s, units) THEN 0
    ELSE LET i == CHOOSE x \in 1..Len(s) :
                    /\ \E e \in x..Len(s) : NumberThenUnit(s, x, e, units)
                    /\ \A y \in 1..(x - 1) :
                          ~\E e \in y..Len(s) : NumberThenUnit(s, y, e, units)
             e == CHOOSE x \in i..Len(s) : NumberThenUnit(s, i, x, units)
         IN  parseInt(SubSeq(s, i, e))

ClaimedMinutes(t) ==
    IF t = NULL \/ t = <<>> THEN 0
    ELSE LET lower == toLowerCase(t)
             hUnits == {<<"h">>, <<"g", "o", "d", "z">>}
         IN  IF HasToken(lower, hUnits) \/ HasToken(lower, MinuteUnits)
             THEN 60 * FirstTokenValue(lower, hUnits)
                    + FirstTokenValue(lower, MinuteUnits)
             ELSE LET num == MatchNumber(lower)
                  IN  IF num # <<>> THEN parseInt(num) ELSE 0

\* C1: parseTimeToMinutes returns 60*hours + minutes over the hour token (a
\* number followed by 'h' or 'godz') and the minute token (a number followed by
\* 'min') when one is present, else the first integer of the string, else 0.
C1_ParseTimeContract ==
    ret.done => ret.val = ClaimedMinutes(arg)


(***************************************************************************)
(* part_000: getSortValue and applyClientSort, called on bounded lists     *)
(***************************************************************************)
SortFields == {"rating", "numberOfRatings", "preparationTime", "totalTime"}

TimeFields == {"preparationTime", "totalTime"}

\* the number of recipes the lists under sort are drawn from
MaxSortIds == 4

Str_20min == <<"2", "0", " ", "m", "i", "n">>

Str_1h20min == <<"1", " ", "h", " ", "2", "0", " ", "m", "i", "n">>

Str_45min == <<"4", "5", " ", "m", "i", "n">>

Str_2h == <<"2", " ", "h">>

Str_1h == <<"1", " ", "h">>

Str_80min == <<"8", "0", " ", "m", "i", "n">>

Str_1godz == <<"1", " ", "g", "o", "d", "z", ".">>

\* a recipe of a response, as the list endpoint returns it
SortRecipe(id) ==
    CASE id = 1 -> [id |-> 1, rating |-> 45, numberOfRatings |-> 100,
                    preparationTime |-> Str_20min, totalTime |-> Str_1h20min]
      [] id = 2 -> [id |-> 2, rating |-> 45, numberOfRatings |-> 30,
                    preparationTime |-> Str_1h, totalTime |-> Str_45min]
      [] id = 3 -> [id |-> 3, rating |-> 30, numberOfRatings |-> 100,
                    preparationTime |-> Str_20min, totalTime |-> Str_2h]
      [] id = 4 -> [id |-> 4, rating |-> 50, numberOfRatings |-> 30,
                    preparationTime |-> Str_1godz, totalTime |-> Str_80min]
      [] OTHER  -> [id |-> id, rating |-> 30 + (id % 3), numberOfRatings |-> 10 * (id % 2),
                    preparationTime |-> NULL, totalTime |-> Str_45min]

getSortValue(it, field) ==
    IF field = "" THEN 0
    ELSE IF field \in TimeFields THEN parseTimeToMinutes(it[field])
    ELSE IF field \in {"rating", "numberOfRatings"} THEN it[field]
    ELSE it[field]

\* the comparator with the direction dropped
Compare_IgnoreDesc(a, b, sortField, descending) ==
    getSortValue(a, sortField) - getSortValue(b, sortField)

\* the comparator handed to copy.sort: every sort value here is a number
Compare(a, b, sortField, descending) ==
    LET va == getSortValue(a, sortField)
        vb == getSortValue(b, sortField)
    IN  IF descending THEN vb - va ELSE va - vb

\* Array.prototype.sortField is stable: x goes after every element that does not
\* compare greater than it
RECURSIVE Insert(_, _, _, _)
Insert(sorted, x, sortField, descending) ==
    IF sorted = <<>> THEN <<x>>
    ELSE LET last == sorted[Len(sorted)]
         IN  IF Compare(last, x, sortField, descending) <= 0
             THEN Append(sorted, x)
             ELSE Append(Insert(SubSeq(sorted, 1, Len(sorted) - 1), x, sortField, descending), last)

RECURSIVE ArraySort(_, _, _)
ArraySort(arr, sortField, descending) ==
    IF arr = <<>> THEN <<>>
    ELSE Insert(ArraySort(SubSeq(arr, 1, Len(arr) - 1), sortField, descending),
                arr[Len(arr)], sortField, descending)

applyClientSort(arr, sortField, descending) ==
    IF sortField = "" THEN arr ELSE ArraySort(arr, sortField, descending)

\* the lists of distinct recipes with ids in 1..MaxSortIds
SortLists ==
    UNION { { [i \in 1..n |-> SortRecipe(f[i])] :
                f \in {g \in [1..n -> 1..MaxSortIds] :
                          \A i, j \in 1..n : i # j => g[i] # g[j]} } :
            n \in 0..MaxSortIds }

InitSort ==
    /\ arg \in [arr : SortLists, sort : SortFields \cup {""}, desc : BOOLEAN]
    /\ ret = [done |-> FALSE]
    /\ NoComponent

CallSort ==
    /\ ~ret.done
    /\ ret' = [done |-> TRUE, val |-> applyClientSort(arg.arr, arg.sort, arg.desc)]
    /\ UNCHANGED <<arg, stateVars, envVars>>

NextSort == CallSort

SpecSort == InitSort /\ [][NextSort]_vars

\* the value a recipe is ordered by: the numeric field, or the total minutes of
\* a time field
SortKey(it, field) ==
    IF field \in TimeFields THEN parseTimeToMinutes(it[field]) ELSE it[field]

IsPermutation(out, in) ==
    /\ Len(out) = Len(in)
    /\ \E p \in [1..Len(in) -> 1..Len(in)] :
          /\ \A i, j \in 1..Len(in) : i # j => p[i] # p[j]
          /\ \A i \in 1..Len(in) : out[i] = in[p[i]]

ExampleList == <<SortRecipe(1), SortRecipe(2), SortRecipe(3)>>

\* C2: applyClientSort returns a permutation of its input whose sort values are
\* non-decreasing (desc false) or non-increasing (desc true); "1 h 20 min",
\* "45 min", "2 h" by totalTime ascending come out as 45, 80, 120 minutes; with
\* no sort field the input comes back unchanged.
C2_SortedPermutation ==
    ret.done =>
        LET out == ret.val
        IN  /\ IsPermutation(out, arg.arr)
            /\ arg.sort = "" => out = arg.arr
            /\ arg.sort # "" =>
                  \A i \in 1..(Len(out) - 1) :
                      IF arg.desc
                      THEN SortKey(out[i], arg.sort) >= SortKey(out[i + 1], arg.sort)
                      ELSE SortKey(out[i], arg.sort) <= SortKey(out[i + 1], arg.sort)
            /\ (arg.arr = ExampleList /\ arg.sort = "totalTime" /\ ~arg.desc) =>
                  [i \in 1..3 |-> SortKey(out[i], "totalTime")] = <<45, 80, 120>>

\* the example of C2 has been sorted, and a descending sort has moved a recipe
C2_Witness ==
    /\ ret.done
    /\ arg.arr = ExampleList
    /\ arg.sort = "totalTime"
    /\ arg.desc
    /\ ret.val = <<SortRecipe(3), SortRecipe(1), SortRecipe(2)>>

\* C3: recipes with equal sort values come out in ascending id order, whatever
\* the order of the input and the direction.
C3_TieBreakById ==
    (ret.done /\ arg.sort # "") =>
        \A i \in 1..(Len(ret.val) - 1) :
            SortKey(ret.val[i], arg.sort) = SortKey(ret.val[i + 1], arg.sort)
                => ret.val[i].id < ret.val[i + 1].id

(***************************************************************************)
(* RecipeList.jsx: the popularity scale of the slider                      *)
(***************************************************************************)
POPULARITY_STEPS ==
    << 0,
       10, 20, 30, 40, 50, 60, 70, 80, 90, 100,
       200, 300, 400, 500, 600, 700, 800, 900, 1000,
       2000, 3000, 4000, 5000, 6000, 7000, 8000, 9000, 10000,
       20000, 30000 >>

\* what reading an array outside its indices yields
undefined == -1

Min(a, b) == IF a <= b THEN a ELSE b

Max(a, b) == IF a >= b THEN a ELSE b

\* the clamp written with Math.max for Math.min
indexToPopularity_MaxForMin(index) ==
    LET k == Max(index, Len(POPULARITY_STEPS) - 1)
    IN  IF k + 1 \in DOMAIN POPULARITY_STEPS THEN POPULARITY_STEPS[k + 1] ELSE undefined

\* JavaScript arrays count from 0, sequences from 1
indexToPopularity(index) ==
    LET k == Min(index, Len(POPULARITY_STEPS) - 1)
    IN  IF k + 1 \in DOMAIN POPULARITY_STEPS THEN POPULARITY_STEPS[k + 1] ELSE undefined

\* how far past either end of the slider an index is drawn
MaxOver == 2

SliderIndexes == (0 - MaxOver)..(Len(POPULARITY_STEPS) - 1 + MaxOver)

InitScale ==
    /\ arg \in [lo : SliderIndexes, hi : SliderIndexes]
    /\ ret = [done |-> FALSE]
    /\ NoComponent

\* the two popularity bounds fetchList puts in a request
CallScale ==
    /\ ~ret.done
    /\ ret' = [done |-> TRUE,
               val |-> [num_ratings_min |-> indexToPopularity(arg.lo),
                        num_ratings_max |-> indexToPopularity(arg.hi)]]
    /\ UNCHANGED <<arg, stateVars, envVars>>

NextScale == CallScale

SpecScale == InitScale /\ [][NextScale]_vars

\* the scale as the specification words it
StatedScale ==
    <<0>> \o [i \in 1..10 |-> 10 * i] \o [i \in 1..9 |-> 100 * (i + 1)]
          \o [i \in 1..9 |-> 1000 * (i + 1)] \o <<20000, 30000>>

\* C10: POPULARITY_STEPS is the strictly increasing 31-value scale 0; 10..100 by
\* 10; 200..1000 by 100; 2000..10000 by 1000; 20000, 30000; for an index i in
\* 0..30 indexToPopularity(i) is its i-th value, and the lower bound sent is at
\* most the upper one whenever the lower index is at most the upper index.
C10_PopularityScale ==
    /\ POPULARITY_STEPS = StatedScale
    /\ Len(POPULARITY_STEPS) = 31
    /\ \A i \in 1..30 : POPULARITY_STEPS[i] < POPULARITY_STEPS[i + 1]
    /\ (ret.done /\ arg.lo \in 0..30 /\ arg.hi \in 0..30) =>
          /\ ret.val.num_ratings_min = StatedScale[arg.lo + 1]
          /\ ret.val.num_ratings_max = StatedScale[arg.hi + 1]
          /\ arg.lo <= arg.hi => ret.val.num_ratings_min <= ret.val.num_ratings_max

\* two indexes inside the slider have been converted
C10_Witness ==
    /\ ret.done
    /\ arg.lo = 11
    /\ arg.hi = 29
    /\ ret.val = [num_ratings_min |-> 200, num_ratings_max |-> 20000]

\* the index brought to the nearest end of the slider
ClampIndex(index) == Max(0, Min(index, 30))

\* C11: for every integer index, the bounds sent are values of the scale: the
\* value at the index brought into 0..30, so 0 below 0 and 30000 above 30, and
\* never undefined
C11_IndexClamped ==
    ret.done =>
        /\ ret.val.num_ratings_min = StatedScale[ClampIndex(arg.lo) + 1]
        /\ ret.val.num_ratings_max = StatedScale[ClampIndex(arg.hi) + 1]
        /\ ret.val.num_ratings_min # undefined /\ ret.val.num_ratings_max # undefined

(***************************************************************************)
(* The catalog and the list endpoint GET /api/recipes.  The backend is not *)
(* among the source files: it is modelled from the specification (Filter   *)
(* Composer, Deterministic Sampler, Sort Evaluator, Pagination).           *)
(***************************************************************************)
\* the number of recipes of the catalog
NRecipes == 40

Catalog == 1..NRecipes

RatingOf(id) == 30 + 5 * (id % 5)

NumRatingsOf(id) == <<5, 30, 100, 2000>>[(id % 4) + 1]

PrepMinutesOf(id) == 5 + 5 * (id % 7)

TotalMinutesOf(id) == PrepMinutesOf(id) + 15 * (id % 6)

LanguageOf(id) == IF id % 2 = 1 THEN "ENG" ELSE "PL"

CategoriesOf(id) ==
    (IF id % 3 = 0 THEN {"dessert"} ELSE {}) \cup (IF id % 4 # 1 THEN {"soup"} ELSE {})

\* the ingredient groups with a variant among the recipe's ingredient lines
GroupsOf(id) ==
    (IF id % 2 = 0 THEN {"tomato"} ELSE {}) \cup (IF id % 5 # 0 THEN {"egg"} ELSE {})

\* the search terms found in the recipe's title, description or ingredients
TermsOf(id) == IF id % 3 # 0 THEN {"a"} ELSE {}

\* the decimal digits of a number below 1000
NumStr(n) ==
    IF n < 10 THEN <<DigitChars[n + 1]>>
    ELSE IF n < 100 THEN <<DigitChars[(n \div 10) + 1], DigitChars[(n % 10) + 1]>>
    ELSE <<DigitChars[(n \div 100) + 1], DigitChars[((n \div 10) % 10) + 1],
           DigitChars[(n % 10) + 1]>>

\* a duration as the catalog words it: "45 min", "2 h", "1 h 20 min"
TimeStr(minutes) ==
    IF minutes < 60 THEN NumStr(minutes) \o <<" ", "m", "i", "n">>
    ELSE IF minutes % 60 = 0 THEN NumStr(minutes \div 60) \o <<" ", "h">>
    ELSE NumStr(minutes \div 60) \o <<" ", "h", " ">>
           \o NumStr(minutes % 60) \o <<" ", "m", "i", "n">>

\* Sort Evaluator: the minutes of a duration, then the numeric fields
SortKeyOf(id, field) ==
    CASE field = "rating" -> RatingOf(id)
      [] field = "numberOfRatings" -> NumRatingsOf(id)
      [] field = "preparationTime" -> PrepMinutesOf(id)
      [] field = "totalTime" -> TotalMinutesOf(id)

\* x comes before y: by key (descending: by key downwards), ties by ascending id
Before(x, y, key, descending) ==
    \/ (IF descending THEN key[x] > key[y] ELSE key[x] < key[y])
    \/ (key[x] = key[y] /\ x < y)

\* the ids of S ordered by key, each at the position its predecessors leave it
OrderIds(S, key, descending) ==
    [i \in 1..Cardinality(S) |->
        CHOOSE x \in S : Cardinality({y \in S : Before(y, x, key, descending)}) = i - 1]

\* the ids of a set in ascending order
Ascending(S) == SelectSeq([i \in 1..NRecipes |-> i], LAMBDA i : i \in S)

\* Pagination: the slice [(page-1)*pageSize, page*pageSize) clipped to the
\* sequence; a page below 1 or past the end is empty
PageSlice(order, pageNo, pageSize) ==
    IF pageNo < 1 \/ (pageNo - 1) * pageSize >= Len(order) THEN <<>>
    ELSE SubSeq(order, (pageNo - 1) * pageSize + 1, Min(pageNo * pageSize, Len(order)))

\* Math.ceil(a / b) for a >= 0, b > 0
Ceil(a, b) == (a + b - 1) \div b

(***************************************************************************)
(* part_000: the RecipeList component with client-side sort and filters    *)
(***************************************************************************)
perPage_000 == 10

\* user events in a run
MaxClicks == 3

\* the rows of the table a user clicks on: the first ones
MaxRowClicked == 1

\* requests in flight at a time
MaxInflight == 2

\* the search terms typed: none, one some recipes hold, one no recipe holds
QTerms == {"", "a", "zz"}

\* the positions the rating sliders are moved to (0.1 steps between 0 and 5)
RatingStops == {0, 45, 50}

\* the positions the #Ratings sliders are moved to (0..5000)
NumRatingsStops == {0, 100, 5000}

RemoveAt(seq, i) == SubSeq(seq, 1, i - 1) \o SubSeq(seq, i + 1, Len(seq))

\* a recipe as the earlier list endpoint returns it
Recipe_000(id) ==
    [id |-> id, rating |-> RatingOf(id), numberOfRatings |-> NumRatingsOf(id),
     preparationTime |-> TimeStr(PrepMinutesOf(id)), totalTime |-> TimeStr(TotalMinutesOf(id))]

MatchesTerm(id, term) == term = "" \/ term \in TermsOf(id)

\* the catalog's rows (a table, evaluated once)
Rows_of_catalog_000 == [id \in Catalog |-> Recipe_000(id)] @@ <<>>

RECURSIVE RecipesOf_000(_)
RecipesOf_000(ids) ==
    IF ids = <<>> THEN <<>>
    ELSE <<Rows_of_catalog_000[Head(ids)]>> \o RecipesOf_000(Tail(ids))

\* the matching ids in order, per search term, sort field and direction (a
\* table, evaluated once); without a sort field the order is by id
Orders_000 ==
    [k \in QTerms \X (SortFields \cup {""}) \X BOOLEAN |->
        LET matching == {id \in Catalog : MatchesTerm(id, k[1])}
        IN  IF k[2] = "" THEN Ascending(matching)
            ELSE OrderIds(matching, [id \in Catalog |-> SortKeyOf(id, k[2])], k[3])] @@ <<>>

\* GET /api/recipes?q&page&per_page&sort&desc
Search_000(req) ==
    LET order == Orders_000[<<req.q, req.sort, req.desc>>]
    IN  [items |-> RecipesOf_000(PageSlice(order, req.page, req.per_page)),
         total |-> Len(order)]

\* what the functions of a render see of the state
Closure_000 == [q |-> q, page |-> page, sort |-> sort, desc |-> desc]

Params_000(c) ==
    [q |-> c.q, page |-> c.page, per_page |-> perPage_000, sort |-> c.sort, desc |-> c.desc]

\* fetchList of the render with closure c, up to the await of fetch
fetchList_000(c) ==
    /\ Len(inflight) < MaxInflight
    /\ loading' = TRUE
    /\ error' = null
    /\ inflight' = Append(inflight, [kind |-> "list", req |-> Params_000(c)])

passesRating_Exclusive(it) == it.rating > ratingRange[1] /\ it.rating <= ratingRange[2]

passesRating(it) == it.rating >= ratingRange[1] /\ it.rating <= ratingRange[2]

passesNumRatings(it) ==
    it.numberOfRatings >= numRatingsRange[1] /\ it.numberOfRatings <= numRatingsRange[2]

\* the table and the pagination are rendered
TableShown_000 == ~loading /\ error = null

\* the rows of the table
Rows_000 == SelectSeq(SelectSeq(items, passesRating), passesNumRatings)

totalPages_000 == Ceil(total, perPage_000)

\* what only RecipeList.jsx has, its history included
newOnlyVars ==
    <<numRatingsRangeIdx, seed, includeIngredients, excludeIngredients, firstLoad,
      categories, languageFilter, hist>>

Init_000 ==
    /\ NoCall
    /\ q = "" /\ items = <<>> /\ page = 1 /\ total = 0 /\ sort = "" /\ desc = FALSE
    /\ loading = FALSE /\ selectedRecipe = NoRecipe /\ error = null
    /\ ratingRange = <<0, 50>> /\ numRatingsRange = <<0, 5000>>
    /\ numRatingsRangeIdx = <<0, 0>> /\ seed = 0
    /\ includeIngredients = {} /\ excludeIngredients = {}
    /\ firstLoad = TRUE /\ categories = {} /\ languageFilter = [ENG |-> TRUE, PL |-> TRUE]
    /\ mounted = FALSE /\ inflight = <<>> /\ timer = <<>> /\ clicks = 0
    /\ answered = <<>> /\ hist = NoHist

Click == mounted /\ clicks < MaxClicks /\ clicks' = clicks + 1

\* the effects of the first render: fetchList(), and the 500 ms timer of the q effect
Mount_000 ==
    /\ ~mounted
    /\ mounted' = TRUE
    /\ fetchList_000(Closure_000)
    /\ timer' = <<Closure_000>>
    /\ UNCHANGED <<pureVars, q, items, page, total, sort, desc, selectedRecipe, ratingRange,
                   numRatingsRange, newOnlyVars, clicks, answered>>

\* typing in the search box: the q effect clears the pending timer and sets one
setQ_000(v) ==
    /\ Click
    /\ v # q
    /\ q' = v
    /\ timer' = <<[Closure_000 EXCEPT !.q = v]>>
    /\ UNCHANGED <<pureVars, items, page, total, sort, desc, loading, selectedRecipe, error,
                   ratingRange, numRatingsRange, newOnlyVars, mounted, inflight, answered>>

\* the Clear button: setQ(''); fetchList() -- the fetchList of the render clicked in
Clear_000 ==
    /\ Click
    /\ fetchList_000(Closure_000)
    /\ q' = ""
    /\ timer' = IF q # "" THEN <<[Closure_000 EXCEPT !.q = ""]>> ELSE timer
    /\ UNCHANGED <<pureVars, items, page, total, sort, desc, selectedRecipe, ratingRange,
                   numRatingsRange, newOnlyVars, mounted, answered>>

\* a sort button; the [page, sort, desc] effect then fetches
changeSort_000(field) ==
    /\ Click
    /\ IF sort = field THEN sort' = sort /\ desc' = ~desc
                       ELSE sort' = field /\ desc' = FALSE
    /\ fetchList_000([Closure_000 EXCEPT !.sort = sort', !.desc = desc'])
    /\ UNCHANGED <<pureVars, q, items, page, total, selectedRecipe, ratingRange,
                   numRatingsRange, newOnlyVars, mounted, timer, answered>>

\* one of the two rating sliders (i = 1 the lower one, i = 2 the upper one)
setRatingRange_000(i, v) ==
    /\ Click
    /\ v # ratingRange[i]
    /\ ratingRange' = [ratingRange EXCEPT ![i] = v]
    /\ UNCHANGED <<pureVars, q, items, page, total, sort, desc, loading, selectedRecipe, error,
                   numRatingsRange, newOnlyVars, mounted, inflight, timer, answered>>

setNumRatingsRange_000(i, v) ==
    /\ Click
    /\ v # numRatingsRange[i]
    /\ numRatingsRange' = [numRatingsRange EXCEPT ![i] = v]
    /\ UNCHANGED <<pureVars, q, items, page, total, sort, desc, loading, selectedRecipe, error,
                   ratingRange, newOnlyVars, mounted, inflight, timer, answered>>

Previous_000 ==
    /\ Click
    /\ TableShown_000
    /\ page # 1
    /\ page' = Max(page - 1, 1)
    /\ fetchList_000([Closure_000 EXCEPT !.page = page'])
    /\ UNCHANGED <<pureVars, q, items, total, sort, desc, selectedRecipe, ratingRange,
                   numRatingsRange, newOnlyVars, mounted, timer, answered>>

Next_000 ==
    /\ Click
    /\ TableShown_000
    /\ page # totalPages_000
    /\ page' = Min(page + 1, totalPages_000)
    /\ fetchList_000([Closure_000 EXCEPT !.page = page'])
    /\ UNCHANGED <<pureVars, q, items, total, sort, desc, selectedRecipe, ratingRange,
                   numRatingsRange, newOnlyVars, mounted, timer, answered>>

\* a click on a row of the table
openRecipe_000(id) ==
    /\ Click
    /\ TableShown_000
    /\ Len(inflight) < MaxInflight
    /\ loading' = TRUE
    /\ error' = null
    /\ inflight' = Append(inflight, [kind |-> "recipe", id |-> id])
    /\ UNCHANGED <<pureVars, q, items, page, total, sort, desc, selectedRecipe, ratingRange,
                   numRatingsRange, newOnlyVars, mounted, timer, answered>>

closeModal_000 ==
    /\ Click
    /\ selectedRecipe # NoRecipe
    /\ selectedRecipe' = NoRecipe
    /\ UNCHANGED <<pureVars, q, items, page, total, sort, desc, loading, error, ratingRange,
                   numRatingsRange, newOnlyVars, mounted, inflight, timer, answered>>

\* the debounce timer calls the fetchList it was set with
TimerFires_000 ==
    /\ timer # <<>>
    /\ fetchList_000(timer[1])
    /\ timer' = <<>>
    /\ UNCHANGED <<pureVars, q, items, page, total, sort, desc, selectedRecipe, ratingRange,
                   numRatingsRange, newOnlyVars, mounted, clicks, answered>>

\* fetchList after the await: the response of request i; applyClientSort is the
\* one of the render that sent it
ListLoaded_000(i) ==
    /\ inflight[i].kind = "list"
    /\ LET req == inflight[i].req
           data == Search_000(req)
       IN  /\ items' = applyClientSort(data.items, req.sort, req.desc)
           /\ total' = data.total
           /\ answered' = <<req>>
    /\ loading' = FALSE
    /\ inflight' = RemoveAt(inflight, i)
    /\ UNCHANGED <<pureVars, q, page, sort, desc, selectedRecipe, error, ratingRange,
                   numRatingsRange, newOnlyVars, mounted, timer, clicks>>

\* fetch or res.json() throws
ListFailed_000(i) ==
    /\ inflight[i].kind = "list"
    /\ error' = "Failed to load recipes."
    /\ loading' = FALSE
    /\ inflight' = RemoveAt(inflight, i)
    /\ UNCHANGED <<pureVars, q, items, page, total, sort, desc, selectedRecipe, ratingRange,
                   numRatingsRange, newOnlyVars, mounted, timer, clicks, answered>>

RecipeLoaded_000(i) ==
    /\ inflight[i].kind = "recipe"
    /\ selectedRecipe' = inflight[i].id
    /\ loading' = FALSE
    /\ inflight' = RemoveAt(inflight, i)
    /\ UNCHANGED <<pureVars, q, items, page, total, sort, desc, error, ratingRange,
                   numRatingsRange, newOnlyVars, mounted, timer, clicks, answered>>

\* fetch throws, or the status is not OK
RecipeFailed_000(i) ==
    /\ inflight[i].kind = "recipe"
    /\ error' = "Failed to load recipe details."
    /\ loading' = FALSE
    /\ inflight' = RemoveAt(inflight, i)
    /\ UNCHANGED <<pureVars, q, items, page, total, sort, desc, selectedRecipe, ratingRange,
                   numRatingsRange, newOnlyVars, mounted, timer, clicks, answered>>

Next_part_000 ==
    \/ Mount_000
    \/ \E v \in QTerms : setQ_000(v)
    \/ Clear_000
    \/ \E field \in SortFields : changeSort_000(field)
    \/ \E i \in 1..2 : \E v \in RatingStops : setRatingRange_000(i, v)
    \/ \E i \in 1..2 : \E v \in NumRatingsStops : setNumRatingsRange_000(i, v)
    \/ Previous_000
    \/ Next_000
    \/ \E i \in 1..Min(Len(Rows_000), MaxRowClicked) : openRecipe_000(Rows_000[i].id)
    \/ closeModal_000
    \/ TimerFires_000
    \/ \E i \in 1..Len(inflight) :
          \/ ListLoaded_000(i)
          \/ ListFailed_000(i)
          \/ RecipeLoaded_000(i)
          \/ RecipeFailed_000(i)

Spec_000 == Init_000 /\ [][Next_part_000]_vars

\* the item is a row of the table
Displayed_000(it) == \E j \in 1..Len(Rows_000) : Rows_000[j] = it

\* C8: with the table shown, a fetched recipe that passes the #Ratings bounds is
\* a row of the table exactly when its rating lies in [a, b], both ends included
C8_RatingInclusive ==
    TableShown_000 =>
        \A i \in 1..Len(items) :
            passesNumRatings(items[i]) =>
                (Displayed_000(items[i]) <=>
                    (ratingRange[1] <= items[i].rating /\ items[i].rating <= ratingRange[2]))

\* the sliders stand at 4.5 and 5; a recipe rated 4.5 and one rated 5 are rows,
\* one rated 4 was fetched and is not
C8_Witness ==
    /\ TableShown_000
    /\ ratingRange = <<45, 50>>
    /\ \E i, j, k \in 1..Len(items) :
          /\ items[i].rating = 45 /\ passesNumRatings(items[i]) /\ Displayed_000(items[i])
          /\ items[j].rating = 50 /\ passesNumRatings(items[j]) /\ Displayed_000(items[j])
          /\ items[k].rating = 40 /\ passesNumRatings(items[k]) /\ ~Displayed_000(items[k])

\* the catalog recipes that pass every filter in force: the term of the request
\* answered last, and the rating and #Ratings bounds
FilteredSet_000 ==
    {id \in Catalog :
        /\ MatchesTerm(id, answered[1].q)
        /\ ratingRange[1] <= RatingOf(id) /\ RatingOf(id) <= ratingRange[2]
        /\ numRatingsRange[1] <= NumRatingsOf(id) /\ NumRatingsOf(id) <= numRatingsRange[2]}

\* C9: with a result page shown, total is the number of catalog recipes that
\* pass every active filter, and the page count is the one derived from it
C9_TotalIsFilteredCount ==
    (TableShown_000 /\ answered # <<>>) =>
        /\ total = Cardinality(FilteredSet_000)
        /\ totalPages_000 = Ceil(Cardinality(FilteredSet_000), perPage_000)

(***************************************************************************)
(* The recipe query engine behind GET /api/recipes, as RecipeList.jsx      *)
(* calls it                                                                *)
(***************************************************************************)
\* the seeds Math.floor(Math.random() * 1e9) is drawn from: 0..MaxSeed
MaxSeed == 1

Seeds == 0..MaxSeed

\* a parameter the request does not carry
absent == "absent"

\* Deterministic Sampler: a key that is a function of (seed, recipe id); recipes
\* collide on it
SeedKey(s, id) == (id * (2 * s + 3) + s) % 17

\* the catalog by seed key, ties by ascending id (a table, evaluated once)
SeedOrders ==
    [s \in Seeds |-> OrderIds(Catalog, [id \in Catalog |-> SeedKey(s, id)], FALSE)] @@ <<>>

\* the catalog by sort field and direction (a table, evaluated once)
SortOrders ==
    [k \in SortFields \X BOOLEAN |->
        OrderIds(Catalog, [id \in Catalog |-> SortKeyOf(id, k[1])], k[2])] @@ <<>>

\* Filter Composer: the recipe passes every predicate of the request
Matches(id, req) ==
    /\ MatchesTerm(id, req.q)
    /\ req.rating_min <= RatingOf(id) /\ RatingOf(id) <= req.rating_max
    /\ req.num_ratings_min <= NumRatingsOf(id) /\ NumRatingsOf(id) <= req.num_ratings_max
    /\ req.language = absent \/ LanguageOf(id) = req.language
    /\ req.categories \subseteq CategoriesOf(id)
    /\ req.includeIngredients \subseteq GroupsOf(id)
    /\ req.excludeIngredients \cap GroupsOf(id) = {}

\* the matching recipes in order: by the sort field when one is set, by the
\* seed otherwise. Both orders are total, so the matching recipes in order are
\* the catalog in order without the others.
Ordering(req) ==
    LET all == IF req.sort # "" THEN SortOrders[<<req.sort, req.desc>>]
                                ELSE SeedOrders[req.seed]
        matching(id) == Matches(id, req)
    IN  SelectSeq(all, matching)

\* search(...) -> (items, total)
Search(req) ==
    LET order == Ordering(req)
    IN  [items |-> PageSlice(order, req.page, req.per_page), total |-> Len(order)]

(***************************************************************************)
(* RecipeList.jsx: the component. items holds the ids of the recipes.      *)
(***************************************************************************)
perPage == 36

\* the values the filters are set to
RatingRanges == {<<10, 50>>, <<45, 50>>}

PopularityRanges == {<<0, 30>>, <<11, 30>>}

\* the sort buttons clicked
SortButtons == {"rating", "totalTime"}

CategoryNames == {"soup"}

IncludeChoices == {"egg"}

ExcludeChoices == {"tomato"}

\* what a render's fetchList closes over
Closure ==
    [q |-> q, page |-> page, sort |-> sort, desc |-> desc, ratingRange |-> ratingRange,
     numRatingsRangeIdx |-> numRatingsRangeIdx, seed |-> seed,
     languageFilter |-> languageFilter, categories |-> categories,
     includeIngredients |-> includeIngredients, excludeIngredients |-> excludeIngredients]

\* Object.entries(languageFilter).filter(([, enabled]) => enabled).map(([lang]) => lang)
enabledLanguages(c) ==
    LET enabled(lang) == c.languageFilter[lang]
    IN  SelectSeq(<<"ENG", "PL">>, enabled)

\* the language sent whenever a toggle is enabled
languageParam_AnyEnabled(c) ==
    IF Len(enabledLanguages(c)) >= 1 THEN enabledLanguages(c)[1] ELSE absent

\* if (enabledLanguages.length === 1) params.set('language', enabledLanguages[0])
languageParam(c) ==
    IF Len(enabledLanguages(c)) = 1 THEN enabledLanguages(c)[1] ELSE absent

\* randomize on the first load only
randomizeParam_FirstOnly(c, first) == first

\* if (first || (!sort && !desc)) params.set('randomize', 'true')
randomizeParam(c, first) == first \/ (c.sort = "" /\ ~c.desc)

\* a seed of its own for every page
seedParam_PerPage(c) == (c.seed + c.page) % (MaxSeed + 1)

\* params.set('seed', seed)
seedParam(c) == c.seed

\* the query string fetchList builds; "" and FALSE stand for a parameter left out
Params(c, first) ==
    [q |-> c.q, page |-> c.page, per_page |-> perPage, sort |-> c.sort, desc |-> c.desc,
     first_load |-> first,
     rating_min |-> c.ratingRange[1], rating_max |-> c.ratingRange[2],
     num_ratings_min |-> indexToPopularity(c.numRatingsRangeIdx[1]),
     num_ratings_max |-> indexToPopularity(c.numRatingsRangeIdx[2]),
     seed |-> seedParam(c), language |-> languageParam(c), categories |-> c.categories,
     includeIngredients |-> c.includeIngredients,
     excludeIngredients |-> c.excludeIngredients,
     randomize |-> randomizeParam(c, first)]

\* fetchList(first) of the render with closure c, up to the await of fetch
fetchList(c, first) ==
    /\ Len(inflight) < MaxInflight
    /\ loading' = TRUE
    /\ error' = null
    /\ inflight' = Append(inflight, [kind |-> "list", req |-> Params(c, first)])

\* the history after request r is sent: r is the request sent last; a request
\* for page 1 begins a walk through the pages, a Next click from the walk's last
\* page continues it, any other request ends it
Sent(r, byNext) ==
    [hist EXCEPT !.last = <<r>>,
                 !.walk =
        IF r.page = 1 THEN <<r>>
        ELSE IF byNext /\ hist.walk # <<>> /\ r.page = Len(hist.walk) + 1
             THEN Append(hist.walk, r)
             ELSE <<>>]

\* the effect that leaves firstLoad set
PageSortEffect_KeepsFirstLoad(c, byNext) ==
    /\ fetchList(c, firstLoad)
    /\ firstLoad' = firstLoad
    /\ hist' = Sent(Params(c, firstLoad), byNext)

\* the [page, sort, desc] effect of the render with closure c
PageSortEffect(c, byNext) ==
    /\ fetchList(c, firstLoad)
    /\ firstLoad' = FALSE
    /\ hist' = Sent(Params(c, firstLoad), byNext)

\* the effect without the debounce: the request is sent at once
DebounceEffect_Immediate(c) ==
    /\ page' = 1
    /\ timer' = <<>>
    /\ PageSortEffect([c EXCEPT !.page = 1], FALSE)

\* the debounced effect without the reset of the page
DebounceEffect_NoReset(c) ==
    /\ timer' = <<c>>
    /\ hist' = [hist EXCEPT !.walk = <<>>]
    /\ UNCHANGED <<page, loading, error, inflight, firstLoad>>

\* the debounced effect of the render with closure c, after a filter changed;
\* its cleanup has cleared the timer of the render before
DebounceEffect(c) ==
    IF firstLoad
    THEN /\ timer' = <<>>
         /\ hist' = [hist EXCEPT !.walk = <<>>]
         /\ UNCHANGED <<page, loading, error, inflight, firstLoad>>
    ELSE IF page # 1
    THEN /\ page' = 1
         /\ timer' = <<>>
         /\ PageSortEffect([c EXCEPT !.page = 1], FALSE)
    ELSE /\ timer' = <<c>>
         /\ hist' = [hist EXCEPT !.walk = <<>>]
         /\ UNCHANGED <<page, loading, error, inflight, firstLoad>>

\* the grid and the pagination are rendered
GridShown == ~(loading /\ items = <<>>) /\ error = null /\ items # <<>>

totalPages == Ceil(total, perPage)

Init ==
    /\ NoCall
    /\ q = "" /\ items = <<>> /\ page = 1 /\ total = 0 /\ sort = "" /\ desc = FALSE
    /\ loading = FALSE /\ selectedRecipe = NoRecipe /\ error = null
    /\ ratingRange = <<10, 50>> /\ numRatingsRange = <<0, 0>>
    /\ numRatingsRangeIdx = <<0, Len(POPULARITY_STEPS) - 1>>
    /\ seed \in Seeds
    /\ includeIngredients = {} /\ excludeIngredients = {}
    /\ firstLoad = TRUE /\ categories = {} /\ languageFilter = [ENG |-> TRUE, PL |-> TRUE]
    /\ mounted = FALSE /\ inflight = <<>> /\ timer = <<>> /\ clicks = 0
    /\ answered = <<>> /\ hist = [mountSeed |-> seed, walk |-> <<>>, last |-> <<>>]

\* the effects of the first render: fetchList(firstLoad), setFirstLoad(false); the
\* debounced effect returns at once
Mount ==
    /\ ~mounted
    /\ mounted' = TRUE
    /\ PageSortEffect(Closure, FALSE)
    /\ UNCHANGED <<pureVars, q, items, page, total, sort, desc, selectedRecipe, ratingRange,
                   numRatingsRange, numRatingsRangeIdx, seed, includeIngredients,
                   excludeIngredients, categories, languageFilter, timer, clicks, answered>>

\* typing in the search box, or its clear button (v = "")
setQ(v) ==
    /\ Click
    /\ v # q
    /\ q' = v
    /\ DebounceEffect([Closure EXCEPT !.q = v])
    /\ UNCHANGED <<pureVars, items, total, sort, desc, selectedRecipe, ratingRange,
                   numRatingsRange, numRatingsRangeIdx, seed, includeIngredients,
                   excludeIngredients, categories, languageFilter, mounted, answered>>

setRatingRange(v) ==
    /\ Click
    /\ v # ratingRange
    /\ ratingRange' = v
    /\ DebounceEffect([Closure EXCEPT !.ratingRange = v])
    /\ UNCHANGED <<pureVars, q, items, total, sort, desc, selectedRecipe,
                   numRatingsRange, numRatingsRangeIdx, seed, includeIngredients,
                   excludeIngredients, categories, languageFilter, mounted, answered>>

setNumRatingsRangeIdx(v) ==
    /\ Click
    /\ v # numRatingsRangeIdx
    /\ numRatingsRangeIdx' = v
    /\ DebounceEffect([Closure EXCEPT !.numRatingsRangeIdx = v])
    /\ UNCHANGED <<pureVars, q, items, total, sort, desc, selectedRecipe, ratingRange,
                   numRatingsRange, seed, includeIngredients,
                   excludeIngredients, categories, languageFilter, mounted, answered>>

toggleLanguage(lang) ==
    /\ Click
    /\ languageFilter' = [languageFilter EXCEPT ![lang] = ~languageFilter[lang]]
    /\ DebounceEffect([Closure EXCEPT !.languageFilter = languageFilter'])
    /\ UNCHANGED <<pureVars, q, items, total, sort, desc, selectedRecipe, ratingRange,
                   numRatingsRange, numRatingsRangeIdx, seed, includeIngredients,
                   excludeIngredients, categories, mounted, answered>>

\* a checkbox of the category dropdown
toggleCategory(cat) ==
    /\ Click
    /\ categories' = IF cat \in categories THEN categories \ {cat} ELSE categories \cup {cat}
    /\ DebounceEffect([Closure EXCEPT !.categories = categories'])
    /\ UNCHANGED <<pureVars, q, items, total, sort, desc, selectedRecipe, ratingRange,
                   numRatingsRange, numRatingsRangeIdx, seed, includeIngredients,
                   excludeIngredients, languageFilter, mounted, answered>>

setIncludeIngredients(selected) ==
    /\ Click
    /\ selected # includeIngredients
    /\ includeIngredients' = selected
    /\ DebounceEffect([Closure EXCEPT !.includeIngredients = selected])
    /\ UNCHANGED <<pureVars, q, items, total, sort, desc, selectedRecipe, ratingRange,
                   numRatingsRange, numRatingsRangeIdx, seed, excludeIngredients,
                   categories, languageFilter, mounted, answered>>

setExcludeIngredients(selected) ==
    /\ Click
    /\ selected # excludeIngredients
    /\ excludeIngredients' = selected
    /\ DebounceEffect([Closure EXCEPT !.excludeIngredients = selected])
    /\ UNCHANGED <<pureVars, q, items, total, sort, desc, selectedRecipe, ratingRange,
                   numRatingsRange, numRatingsRangeIdx, seed, includeIngredients,
                   categories, languageFilter, mounted, answered>>

\* the sort button that starts with the ascending order
changeSort_AscendingFirst(field) ==
    /\ Click
    /\ IF sort = field THEN sort' = sort /\ desc' = ~desc
                       ELSE sort' = field /\ desc' = FALSE
    /\ \E s \in Seeds :
          /\ seed' = s
          /\ PageSortEffect([Closure EXCEPT !.sort = sort', !.desc = desc', !.seed = s], FALSE)
    /\ UNCHANGED <<pureVars, q, items, page, total, selectedRecipe, ratingRange,
                   numRatingsRange, numRatingsRangeIdx, includeIngredients,
                   excludeIngredients, categories, languageFilter, mounted, timer, answered>>

\* a sort button; the [page, sort, desc] effect then fetches. The debounced
\* effect does not run: a pending timer keeps the closure it was set with.
changeSort(field) ==
    /\ Click
    /\ IF sort = field THEN sort' = sort /\ desc' = ~desc
                       ELSE sort' = field /\ desc' = TRUE
    /\ \E s \in Seeds :
          /\ seed' = s
          /\ PageSortEffect([Closure EXCEPT !.sort = sort', !.desc = desc', !.seed = s], FALSE)
    /\ UNCHANGED <<pureVars, q, items, page, total, selectedRecipe, ratingRange,
                   numRatingsRange, numRatingsRangeIdx, includeIngredients,
                   excludeIngredients, categories, languageFilter, mounted, timer, answered>>

PreviousClick ==
    /\ Click
    /\ GridShown
    /\ page # 1
    /\ page' = Max(page - 1, 1)
    /\ PageSortEffect([Closure EXCEPT !.page = page'], FALSE)
    /\ UNCHANGED <<pureVars, q, items, total, sort, desc, selectedRecipe, ratingRange,
                   numRatingsRange, numRatingsRangeIdx, seed, includeIngredients,
                   excludeIngredients, categories, languageFilter, mounted, timer, answered>>

\* the Next click that also draws a seed
NextClick_NewSeed ==
    /\ Click
    /\ GridShown
    /\ ~(page >= totalPages)
    /\ page' = Min(page + 1, totalPages)
    /\ seed' = (seed + 1) % (MaxSeed + 1)
    /\ PageSortEffect([Closure EXCEPT !.page = page', !.seed = seed'], TRUE)
    /\ UNCHANGED <<pureVars, q, items, total, sort, desc, selectedRecipe, ratingRange,
                   numRatingsRange, numRatingsRangeIdx, includeIngredients,
                   excludeIngredients, categories, languageFilter, mounted, timer, answered>>

NextClick ==
    /\ Click
    /\ GridShown
    /\ ~(page >= totalPages)
    /\ page' = Min(page + 1, totalPages)
    /\ PageSortEffect([Closure EXCEPT !.page = page'], TRUE)
    /\ UNCHANGED <<pureVars, q, items, total, sort, desc, selectedRecipe, ratingRange,
                   numRatingsRange, numRatingsRangeIdx, seed, includeIngredients,
                   excludeIngredients, categories, languageFilter, mounted, timer, answered>>

\* a click on a card of the grid
openRecipe(id) ==
    /\ Click
    /\ GridShown
    /\ Len(inflight) < MaxInflight
    /\ loading' = TRUE
    /\ error' = null
    /\ inflight' = Append(inflight, [kind |-> "recipe", id |-> id])
    /\ UNCHANGED <<pureVars, q, items, page, total, sort, desc, selectedRecipe, ratingRange,
                   numRatingsRange, numRatingsRangeIdx, seed, includeIngredients,
                   excludeIngredients, firstLoad, categories, languageFilter, mounted,
                   timer, answered, hist>>

closeModal ==
    /\ Click
    /\ selectedRecipe # NoRecipe
    /\ selectedRecipe' = NoRecipe
    /\ UNCHANGED <<pureVars, q, items, page, total, sort, desc, loading, error, ratingRange,
                   numRatingsRange, numRatingsRangeIdx, seed, includeIngredients,
                   excludeIngredients, firstLoad, categories, languageFilter, mounted,
                   inflight, timer, answered, hist>>

\* 400 ms after the last filter change: the fetchList(false) the timer was set with
TimerFires ==
    /\ timer # <<>>
    /\ fetchList(timer[1], FALSE)
    /\ hist' = Sent(Params(timer[1], FALSE), FALSE)
    /\ timer' = <<>>
    /\ UNCHANGED <<pureVars, q, items, page, total, sort, desc, selectedRecipe, ratingRange,
                   numRatingsRange, numRatingsRangeIdx, seed, includeIngredients,
                   excludeIngredients, firstLoad, categories, languageFilter, mounted,
                   clicks, answered>>

\* fetchList after the await: request i is answered with status OK
ListLoaded(i) ==
    /\ inflight[i].kind = "list"
    /\ LET data == Search(inflight[i].req)
       IN  /\ items' = data.items
           /\ total' = data.total
    /\ answered' = <<inflight[i].req>>
    /\ loading' = FALSE
    /\ inflight' = RemoveAt(inflight, i)
    /\ UNCHANGED <<pureVars, q, page, sort, desc, selectedRecipe, error, ratingRange,
                   numRatingsRange, numRatingsRangeIdx, seed, includeIngredients,
                   excludeIngredients, firstLoad, categories, languageFilter, mounted,
                   timer, clicks, hist>>

\* the failure that also empties the list
ListFailed_ClearsItems(i) ==
    /\ inflight[i].kind = "list"
    /\ error' = "Failed to load recipes. Please try again."
    /\ items' = <<>>
    /\ total' = 0
    /\ loading' = FALSE
    /\ inflight' = RemoveAt(inflight, i)
    /\ UNCHANGED <<pureVars, q, page, sort, desc, selectedRecipe, ratingRange,
                   numRatingsRange, numRatingsRangeIdx, seed, includeIngredients,
                   excludeIngredients, firstLoad, categories, languageFilter, mounted,
                   timer, clicks, answered, hist>>

\* fetch throws, or the status is not OK
ListFailed(i) ==
    /\ inflight[i].kind = "list"
    /\ error' = "Failed to load recipes. Please try again."
    /\ loading' = FALSE
    /\ inflight' = RemoveAt(inflight, i)
    /\ UNCHANGED <<pureVars, q, items, page, total, sort, desc, selectedRecipe, ratingRange,
                   numRatingsRange, numRatingsRangeIdx, seed, includeIngredients,
                   excludeIngredients, firstLoad, categories, languageFilter, mounted,
                   timer, clicks, answered, hist>>

RecipeLoaded(i) ==
    /\ inflight[i].kind = "recipe"
    /\ selectedRecipe' = inflight[i].id
    /\ loading' = FALSE
    /\ inflight' = RemoveAt(inflight, i)
    /\ UNCHANGED <<pureVars, q, items, page, total, sort, desc, error, ratingRange,
                   numRatingsRange, numRatingsRangeIdx, seed, includeIngredients,
                   excludeIngredients, firstLoad, categories, languageFilter, mounted,
                   timer, clicks, answered, hist>>

\* the causes openRecipe's catch handles: the recipe is not found (status 404),
\* or another status that is not OK, or fetch throws
RecipeFailures == {"not found", "failure"}

RecipeFailed(i, cause) ==
    /\ inflight[i].kind = "recipe"
    /\ cause \in RecipeFailures
    /\ error' = "Failed to load recipe details."
    /\ loading' = FALSE
    /\ inflight' = RemoveAt(inflight, i)
    /\ UNCHANGED <<pureVars, q, items, page, total, sort, desc, selectedRecipe, ratingRange,
                   numRatingsRange, numRatingsRangeIdx, seed, includeIngredients,
                   excludeIngredients, firstLoad, categories, languageFilter, mounted,
                   timer, clicks, answered, hist>>

Next ==
    \/ Mount
    \/ \E v \in QTerms : setQ(v)
    \/ \E v \in RatingRanges : setRatingRange(v)
    \/ \E v \in PopularityRanges : setNumRatingsRangeIdx(v)
    \/ \E lang \in {"ENG", "PL"} : toggleLanguage(lang)
    \/ \E cat \in CategoryNames : toggleCategory(cat)
    \/ \E selected \in SUBSET IncludeChoices : setIncludeIngredients(selected)
    \/ \E selected \in SUBSET ExcludeChoices : setExcludeIngredients(selected)
    \/ \E field \in SortButtons : changeSort(field)
    \/ PreviousClick
    \/ NextClick
    \/ \E i \in 1..Min(Len(items), MaxRowClicked) : openRecipe(items[i])
    \/ closeModal
    \/ TimerFires
    \/ \E i \in 1..Len(inflight) : ListLoaded(i)
    \/ \E i \in 1..Len(inflight) : ListFailed(i)
    \/ \E i \in 1..Len(inflight) : RecipeLoaded(i)
    \/ \E i \in 1..Len(inflight) : \E cause \in RecipeFailures : RecipeFailed(i, cause)

Spec == Init /\ [][Next]_vars

\* a list request is sent in the step
SendsList ==
    /\ Len(inflight') = Len(inflight) + 1
    /\ inflight'[Len(inflight')].kind = "list"

\* the list request sent in the step
Request == inflight'[Len(inflight')].req

\* the pages the requests of a walk return, one after the other
RECURSIVE PagesOf(_)
PagesOf(walk) ==
    IF walk = <<>> THEN <<>>
    ELSE Search(Head(walk)).items \o PagesOf(Tail(walk))

FilteredSet(req) == {id \in Catalog : Matches(id, req)}

\* the walk has reached the last page of what its filters match
WalkComplete(walk) == Len(walk) >= Ceil(Cardinality(FilteredSet(walk[1])), perPage)

\* ids is the filtered set of the request in its order under the request's seed:
\* every matching recipe once, by seed key, ties by ascending id
IsSeedOrdering(ids, req) ==
    /\ Len(ids) = Cardinality(FilteredSet(req))
    /\ {ids[i] : i \in 1..Len(ids)} = FilteredSet(req)
    /\ \A i \in 1..(Len(ids) - 1) :
          \/ SeedKey(req.seed, ids[i]) < SeedKey(req.seed, ids[i + 1])
          \/ (SeedKey(req.seed, ids[i]) = SeedKey(req.seed, ids[i + 1]) /\ ids[i] < ids[i + 1])

DifferOnlyInPage(r1, r2) == [r1 EXCEPT !.page = 1] = [r2 EXCEPT !.page = 1]

DifferOnlyInPageAndFirstLoad(r1, r2) ==
    [r1 EXCEPT !.page = 1, !.first_load = FALSE] = [r2 EXCEPT !.page = 1, !.first_load = FALSE]

\* C4 as stated: with no sort field, the requests of a walk from page 1 with
\* Next differ only in the page number, and the pages of a walk to the last
\* page, one after the other, are the filtered set in its order under the seed
C4_PagesDifferOnlyInPage ==
    (sort = "" /\ hist.walk # <<>>) =>
        /\ \A i \in 1..Len(hist.walk) :
              hist.walk[i].page = i /\ DifferOnlyInPage(hist.walk[1], hist.walk[i])
        /\ WalkComplete(hist.walk) => IsSeedOrdering(PagesOf(hist.walk), hist.walk[1])

\* C4 amended: with no sort field, the requests of a walk from page 1 with Next
\* differ only in the page number and in first_load, which only the request of
\* the mount carries; the search does not read first_load, and the pages of a
\* walk to the last page, one after the other, are the filtered set in its
\* order under the seed, no recipe repeated and none omitted
C4_PagesPartitionSeedOrdering ==
    (sort = "" /\ hist.walk # <<>>) =>
        /\ \A i \in 1..Len(hist.walk) :
              /\ hist.walk[i].page = i
              /\ DifferOnlyInPageAndFirstLoad(hist.walk[1], hist.walk[i])
              /\ hist.walk[i].first_load => i = 1
        /\ WalkComplete(hist.walk) => IsSeedOrdering(PagesOf(hist.walk), hist.walk[1])

\* a walk over two pages, a full one and the rest, has been made
C4_Witness ==
    /\ sort = ""
    /\ Len(hist.walk) = 2
    /\ WalkComplete(hist.walk)
    /\ Len(Search(hist.walk[1]).items) = perPage
    /\ Len(Search(hist.walk[2]).items) = NRecipes - perPage

\* C5: a step changes the seed only if it is a changeSort, and a list request
\* sent while no sort field is selected carries the seed drawn at mount
C5_SeedChangesOnlyInChangeSort ==
    [][/\ seed' # seed => \E field \in SortButtons : changeSort(field)
       /\ (SendsList /\ sort' = "") => Request.seed = hist.mountSeed]_vars

\* after a filter change and a Next click, with no sort field, the request for
\* page 2 carries the seed of the mount
C5_Witness ==
    /\ sort = "" /\ page = 2 /\ clicks >= 2
    /\ seed = hist.mountSeed /\ seed = MaxSeed
    /\ \E i \in 1..Len(inflight) :
          /\ inflight[i].kind = "list"
          /\ inflight[i].req.page = 2
          /\ ~inflight[i].req.first_load
          /\ inflight[i].req.seed = hist.mountSeed

\* C6: desc is set only while a sort field is, and a list request carries
\* randomize exactly when it carries no sort field
C6_RandomizeIffNoSort ==
    /\ desc => sort # ""
    /\ \A i \in 1..Len(inflight) :
          inflight[i].kind = "list" =>
              (inflight[i].req.randomize <=> inflight[i].req.sort = "")

\* a request with a sort field and without randomize is in flight, and so is one
\* sent after the first load without a sort field and with randomize
C6_Witness ==
    \E i, j \in 1..Len(inflight) :
        /\ inflight[i].kind = "list" /\ inflight[j].kind = "list"
        /\ inflight[i].req.sort # "" /\ ~inflight[i].req.randomize
        /\ inflight[j].req.sort = "" /\ inflight[j].req.randomize
        /\ ~inflight[j].req.first_load

\* the toggles enabled
Enabled(filter) == {lang \in {"ENG", "PL"} : filter[lang]}

\* C7: a list request carries a language exactly when one toggle is enabled, and
\* then that language; with both toggles or none enabled it carries none, and
\* the search then matches what it matches under no language filter
C7_LanguageIffExactlyOne ==
    [][SendsList =>
          /\ Request.language # absent <=> Cardinality(Enabled(languageFilter')) = 1
          /\ Request.language # absent => Enabled(languageFilter') = {Request.language}
          /\ Cardinality(Enabled(languageFilter')) # 1 =>
                \A id \in Catalog :
                    Matches(id, Request) <=> Matches(id, [Request EXCEPT !.language = absent])]_vars

\* a request with the one language enabled was answered; with the other toggle
\* disabled too, a request without a language is in flight
C7_Witness ==
    /\ ~languageFilter.ENG /\ ~languageFilter.PL
    /\ answered # <<>> /\ answered[1].language = "PL"
    /\ \E i \in 1..Len(inflight) :
          /\ inflight[i].kind = "list"
          /\ ~inflight[i].req.first_load
          /\ inflight[i].req.language = absent

\* C12: no step is the outcome of openRecipe both for a recipe that is not found
\* and for a server error or a network failure: the state after the one differs
\* from the state after the other
C12_NotFoundIsDistinct ==
    [][\A i \in 1..Len(inflight) :
          ~(RecipeFailed(i, "not found") /\ RecipeFailed(i, "failure"))]_vars

\* C13: a list request that fails sets error to the failure message, leaves items
\* and total as they were and resets loading; a step that sends a list request
\* clears the error
C13_ListFailureKeepsItems ==
    [][/\ \A i \in 1..Len(inflight) :
             ListFailed(i) =>
                 /\ error' = "Failed to load recipes. Please try again."
                 /\ items' = items /\ total' = total
                 /\ ~loading'
       /\ SendsList => error' = null]_vars

\* the request for page 2 has failed: the error is shown over the recipes and
\* the total of page 1
C13_Witness ==
    /\ error = "Failed to load recipes. Please try again."
    /\ ~loading /\ inflight = <<>>
    /\ page = 2 /\ answered # <<>> /\ answered[1].page = 1
    /\ Len(items) = perPage /\ total = NRecipes

\* C14: a click on a sort field that is not the active one makes it the active
\* field, descending; a click on the active field toggles the direction, the
\* first one to ascending; sort and desc change in no other step, and a state
\* with a sort field is never followed by one without
C14_ChangeSort ==
    [][/\ \A field \in SortButtons :
             changeSort(field) =>
                 /\ sort' = field
                 /\ desc' = (IF sort = field THEN ~desc ELSE TRUE)
       /\ (sort' # sort \/ desc' # desc) => \E field \in SortButtons : changeSort(field)
       /\ sort # "" => sort' # ""]_vars

\* the list sorted by rating, descending, has been received and a second click
\* on the rating button has switched to ascending
C14_Witness ==
    /\ sort = "rating" /\ ~desc
    /\ answered # <<>> /\ answered[1].sort = "rating" /\ answered[1].desc
    /\ \E i \in 1..Len(inflight) :
          /\ inflight[i].kind = "list"
          /\ inflight[i].req.sort = "rating" /\ ~inflight[i].req.desc

\* the filters: what the debounced effect depends on
filterVars ==
    <<q, ratingRange, numRatingsRangeIdx, categories, languageFilter, includeIngredients,
      excludeIngredients>>

\* the request carries the filters as they are after the step
CarriesNewFilters(r) ==
    /\ r.q = q'
    /\ r.rating_min = ratingRange'[1] /\ r.rating_max = ratingRange'[2]
    /\ r.num_ratings_min = POPULARITY_STEPS[numRatingsRangeIdx'[1] + 1]
    /\ r.num_ratings_max = POPULARITY_STEPS[numRatingsRangeIdx'[2] + 1]
    /\ r.categories = categories'
    /\ r.language = (IF languageFilter'.ENG = languageFilter'.PL THEN absent
                     ELSE IF languageFilter'.ENG THEN "ENG" ELSE "PL")
    /\ r.includeIngredients = includeIngredients'
    /\ r.excludeIngredients = excludeIngredients'

\* C15: a step that changes a filter while page is not 1 sets page to 1 and
\* sends exactly one list request, for page 1 with the new filters; it leaves
\* no debounce timer pending
C15_FilterChangeResetsPage ==
    [][(filterVars' # filterVars /\ page # 1) =>
          /\ page' = 1
          /\ SendsList
          /\ Request.page = 1
          /\ CarriesNewFilters(Request)
          /\ timer' = <<>>]_vars

\* page 2 was reached and, there, a search term typed: page is 1 again, one
\* request for page 1 with the term is in flight and no timer is pending
C15_Witness ==
    /\ clicks = 2 /\ page = 1 /\ q = "a" /\ timer = <<>>
    /\ answered # <<>> /\ answered[1].page = 2 /\ answered[1].q = ""
    /\ Len(inflight) = 1
    /\ inflight[1].kind = "list" /\ inflight[1].req.page = 1 /\ inflight[1].req.q = "a"

\* the filters a fetchList closure holds
FiltersOf(c) ==
    <<c.q, c.ratingRange, c.numRatingsRangeIdx, c.categories, c.languageFilter,
      c.includeIngredients, c.excludeIngredients>>

\* C16: a step that changes a filter while page is 1 sends nothing and leaves one
\* timer pending, set with the new filters, the timer of the change before being
\* cancelled; when the pending timer fires (400 ms having passed with no filter
\* change) exactly one list request is sent, and it carries the filters as they
\* are, those of the last change
C16_Debounced ==
    [][/\ (filterVars' # filterVars /\ page = 1) =>
             /\ inflight' = inflight
             /\ Len(timer') = 1
             /\ FiltersOf(timer'[1]) = filterVars'
       /\ (timer # <<>> /\ timer' = <<>> /\ filterVars' = filterVars) =>
             /\ SendsList
             /\ CarriesNewFilters(Request)
       /\ Len(timer') <= 1]_vars

\* after the first load a search term was typed and the rating slider moved; the
\* timer has fired: the one request sent since carries both
C16_Witness ==
    /\ clicks = 2 /\ page = 1 /\ sort = "" /\ timer = <<>> /\ error = null
    /\ q = "a" /\ ratingRange = <<45, 50>>
    /\ answered # <<>> /\ answered[1].first_load
    /\ Len(inflight) = 1
    /\ inflight[1].kind = "list" /\ ~inflight[1].req.first_load
    /\ inflight[1].req.q = "a" /\ inflight[1].req.rating_min = 45

\* C17: the page is never below 1, and no list request in flight asks for a page
\* below 1
C17_PageAtLeastOne ==
    /\ page >= 1
    /\ \A i \in 1..Len(inflight) : inflight[i].kind = "list" => inflight[i].req.page >= 1

\* C18: with no list request in flight and the grid on screen, items and total
\* are those of the response to the list request sent last
C18_NoStaleResults ==
    (hist.last # <<>> /\ answered # <<>> /\ error = null
        /\ \A i \in 1..Len(inflight) : inflight[i].kind # "list") =>
        /\ answered[1] = hist.last[1]
        /\ items = Search(hist.last[1]).items
        /\ total = Search(hist.last[1]).total

\* C19: a list request carries the page, the sort field, the direction, the seed
\* and the filters as they are when it is sent
C19_RequestCarriesCurrentValues ==
    [][SendsList =>
          /\ Request.page = page'
          /\ Request.sort = sort' /\ Request.desc = desc'
          /\ Request.seed = seed'
          /\ CarriesNewFilters(Request)]_vars

\* C20: the mount sends exactly one list request, with first_load, randomize and
\* page 1, and sets no debounce timer; no list request sent later carries
\* first_load
C20_OneFirstLoadRequest ==
    [][/\ (~mounted /\ mounted') =>
             /\ SendsList
             /\ Len(inflight') = 1
             /\ Request.first_load /\ Request.randomize /\ Request.page = 1
             /\ timer' = <<>>
       /\ (mounted /\ SendsList) => ~Request.first_load]_vars

\* the request of the mount was answered, and a request sent after a click is in
\* flight, without first_load
C20_Witness ==
    /\ mounted /\ ~firstLoad /\ clicks >= 1
    /\ answered # <<>> /\ answered[1].first_load /\ answered[1].randomize
    /\ \E i \in 1..Len(inflight) :
          inflight[i].kind = "list" /\ ~inflight[i].req.first_load

====
